---- MODULE Spec2Model ----
(***************************************************************************)
(* Model of the SpriteDicing core: the dicer (crates/lib/src/dicer.rs)     *)
(* chops sprite textures into hashed units, the packer                     *)
(* (crates/lib/src/packer.rs) lays the unique units out on atlases.        *)
(*                                                                         *)
(* Conventions.  Rust indices are 0-based; sequence positions here are     *)
(* 1-based, so an index idx of the source is position idx + 1.  Pixel      *)
(* coordinates (x, y) stay 0-based as in the source.  f32 values (UVs,     *)
(* uv_inset) are exact rationals <<num, den>>; rounding is not modelled.   *)
(* An Option is a sequence of length 0 (None) or 1 (Some).  A sprite's id   *)
(* is its position in the input; pivots are carried through unread by the  *)
(* dicer and the packer and are left out.  The caller installs a progress  *)
(* callback, so every Progress::report call is logged in progress.         *)
(***************************************************************************)
EXTENDS Integers, Sequences, FiniteSets, TLC

VARIABLES sprites, prefs, pc, idx, textures, progress, ctx, atlases, admitted,
          result, prev

vars == <<sprites, prefs, pc, idx, textures, progress, ctx, atlases, admitted,
          result, prev>>

(* ------------------------------ bounds --------------------------------- *)

MaxSprites == 2
MaxUnit == 2
MaxPad == 2
MaxLimit == 4
MaxInset == 2
MaxHashes == 9
MaxSizeLimit == 8

(* ------------------------------ arithmetic ----------------------------- *)

Min(a, b) == IF a < b THEN a ELSE b

DivCeil(a, b) == (a + b - 1) \div b

RECURSIVE Gcd(_, _)
Gcd(a, b) == IF b = 0 THEN a ELSE Gcd(b, a % b)

Abs(a) == IF a < 0 THEN -a ELSE a

\* f32 values as exact rationals in lowest terms with a positive denominator
Rat(n, d) ==
    LET s == IF d < 0 THEN -1 ELSE 1
        g == Gcd(Abs(n), Abs(d))
    IN  <<(s * n) \div g, (s * d) \div g>>

RAdd(p, q) == Rat(p[1] * q[2] + q[1] * p[2], p[2] * q[2])
RSub(p, q) == Rat(p[1] * q[2] - q[1] * p[2], p[2] * q[2])
RMul(p, q) == Rat(p[1] * q[1], p[2] * q[2])
RDiv(p, q) == Rat(p[1] * q[2], p[2] * q[1])
RLess(p, q) == p[1] * q[2] < q[1] * p[2]
RLeq(p, q) == p[1] * q[2] <= q[1] * p[2]
RInt(n) == <<n, 1>>

\* (n as f32).sqrt().ceil() as u32
RECURSIVE SqrtCeilFrom(_, _)
SqrtCeilFrom(n, k) == IF k * k >= n THEN k ELSE SqrtCeilFrom(n, k + 1)
SqrtCeil(n) == SqrtCeilFrom(n, 0)

\* u32::next_power_of_two
RECURSIVE PowerOfTwoFrom(_, _)
PowerOfTwoFrom(n, p) == IF p >= n THEN p ELSE PowerOfTwoFrom(n, 2 * p)
next_power_of_two(n) == PowerOfTwoFrom(n, 1)

(* ------------------------------ models.rs ------------------------------ *)

\* Pixel: c stands for the three colour channels, a for alpha
Pixel(c, a) == [c |-> c, a |-> a]
PixelDefault == Pixel(0, 0)

T == PixelDefault
R == Pixel(1, 1)
B == Pixel(2, 1)
Y == Pixel(3, 1)
\* alpha zero, colour channels not zero: transparent but not the default pixel
H == Pixel(1, 0)

Texture(w, h, px) == [width |-> w, height |-> h, pixels |-> px]

R1X1 == Texture(1, 1, <<R>>)
T1X1 == Texture(1, 1, <<T>>)
RR2X1 == Texture(2, 1, <<R, R>>)
BYRT == Texture(2, 2, <<B, Y, R, T>>)
RTRH == Texture(2, 2, <<R, T, R, H>>)

Fixtures == {R1X1, T1X1, RR2X1, BYRT, RTRH}

ErrUnitZero == "Unit size can't be zero."
ErrPadding == "Padding can't be above unit size."
ErrInset == "UV inset should be in 0.0 to 0.5 range."
ErrLimitZero == "Atlas size limit can't be zero."
ErrUnitAboveLimit == "Unit size can't be above atlas size limit."
ErrCantFit == "Can't fit single texture; increase atlas size limit."

\* uv_inset values are multiples of 1 / InsetDen
InsetDen == 2
Half == Rat(1, 2)

\* Progress::report taking idx itself for the step number
report_from_zero(log, stage, i, len) ==
    LET num == i
        ratio == RAdd(Rat(stage, 5), RMul(Rat(1, 5), Rat(num, len)))
    IN  Append(log, [stage |-> stage, num |-> num, len |-> len, ratio |-> ratio])

\* Progress::report with a callback installed: the report handed to it
Report(log, stage, i, len) ==
    LET num == i + 1
        ratio == RAdd(Rat(stage, 5), RMul(Rat(1, 5), Rat(num, len)))
    IN  Append(log, [stage |-> stage, num |-> num, len |-> len, ratio |-> ratio])

(* ------------------------------ dicer.rs ------------------------------- *)

saturate(n, max) == IF n < 0 THEN 0 ELSE IF n > max THEN max ELSE n

\* get_pixel reading (0,0,0,0) outside the texture instead of clamping
get_pixel_zero_fill(x, y, tex) ==
    IF x < 0 \/ y < 0 \/ x >= tex.width \/ y >= tex.height
    THEN PixelDefault
    ELSE tex.pixels[(x + tex.width * y) + 1]

get_pixel(x, y, tex) ==
    LET sx == saturate(x, tex.width - 1)
        sy == saturate(y, tex.height - 1)
    IN  tex.pixels[(sx + tex.width * sy) + 1]

get_pixels(rect, tex) ==
    [i \in 1..(rect.width * rect.height) |->
        get_pixel(rect.x + ((i - 1) % rect.width),
                  rect.y + ((i - 1) \div rect.width), tex)]

pad_rect(rect, pad) ==
    [x |-> rect.x - pad, y |-> rect.y - pad,
     width |-> rect.width + pad * 2, height |-> rect.height + pad * 2]

crop_over_borders(rect, tex) ==
    [x |-> rect.x, y |-> rect.y,
     width |-> Min(rect.width, tex.width - rect.x),
     height |-> Min(rect.height, tex.height - rect.y)]

\* DefaultHasher over the pixel slice: the length, then every pixel's bytes,
\* mixed by a fixed-key function that is injective on the inputs of the model
PixelBase == 8
HashMod == 65537
HashMul == 12345
HashAdd == 4321

PixelCode(p) == p.c * 2 + p.a

RECURSIVE HashFeed(_, _, _)
HashFeed(pixels, i, acc) ==
    IF i > Len(pixels) THEN acc
    ELSE HashFeed(pixels, i + 1, acc * PixelBase + PixelCode(pixels[i]))

hash(pixels) ==
    ((HashFeed(pixels, 1, Len(pixels)) % HashMod) * HashMul + HashAdd) % HashMod

\* dice_at dropping a unit as soon as one of its pixels is transparent
dice_at_drop_any_transparent(unit_x, unit_y, size, pad, sprite) ==
    LET unit_rect == [x |-> unit_x * size, y |-> unit_y * size,
                      width |-> size, height |-> size]
        unit_pixels == get_pixels(unit_rect, sprite.texture)
    IN  IF \E i \in 1..Len(unit_pixels) : unit_pixels[i].a = 0
        THEN <<>>
        ELSE <<[rect |-> crop_over_borders(unit_rect, sprite.texture),
                pixels |-> get_pixels(pad_rect(unit_rect, pad), sprite.texture),
                hash |-> hash(unit_pixels)]>>

dice_at(unit_x, unit_y, size, pad, sprite) ==
    LET unit_rect == [x |-> unit_x * size, y |-> unit_y * size,
                      width |-> size, height |-> size]
        unit_pixels == get_pixels(unit_rect, sprite.texture)
    IN  IF \A i \in 1..Len(unit_pixels) : unit_pixels[i].a = 0
        THEN <<>>
        ELSE <<[rect |-> crop_over_borders(unit_rect, sprite.texture),
                pixels |-> get_pixels(pad_rect(unit_rect, pad), sprite.texture),
                hash |-> hash(unit_pixels)]>>

\* the loop nest of dice_it: x outer, y inner; k counts the cells visited
RECURSIVE DiceCells(_, _, _, _, _, _)
DiceCells(k, count_x, count_y, size, pad, sprite) ==
    IF k >= count_x * count_y THEN <<>>
    ELSE dice_at(k \div count_y, k % count_y, size, pad, sprite)
         \o DiceCells(k + 1, count_x, count_y, size, pad, sprite)

dice_it(size, pad, sprite) ==
    LET unit_count_x == DivCeil(sprite.texture.width, size)
        unit_count_y == DivCeil(sprite.texture.height, size)
        units == DiceCells(0, unit_count_x, unit_count_y, size, pad, sprite)
    IN  IF units = <<>> THEN <<>>
        ELSE <<[id |-> sprite.id,
                size |-> [width |-> sprite.texture.width,
                          height |-> sprite.texture.height],
                unique |-> {units[i].hash : i \in 1..Len(units)},
                units |-> units]>>

(* ------------------------------ packer.rs ------------------------------ *)

EmptyMap == [h \in {} |-> 0]

\* HashMap::insert: a value already stored under the key is replaced
MapInsert(m, k, v) == [h \in (DOMAIN m) \cup {k} |-> IF h = k THEN v ELSE m[h]]

new_ctx(diced, p) ==
    LET padded_unit_size == p.unit_size + p.padding * 2
        per_row == p.atlas_size_limit \div padded_unit_size
    IN  [inset |-> p.uv_inset, square |-> p.atlas_square, pot |-> p.atlas_pot,
         size_limit |-> p.atlas_size_limit, unit_size |-> p.unit_size,
         pad |-> p.padding, padded_unit_size |-> padded_unit_size,
         unit_capacity |-> per_row * per_row,
         to_pack |-> diced, packed |-> {}, units |-> EmptyMap]

units_to_pack(c, texture) ==
    Cardinality({u \in texture.unique : u \notin DOMAIN c.units})

\* the loop of find_packable_texture taking a later texture on a tie
RECURSIVE FindScanLastOnTie(_, _, _, _)
FindScanLastOnTie(c, i, best, min) ==
    IF i > Len(c.to_pack) THEN <<best, min>>
    ELSE IF i \in c.packed THEN FindScanLastOnTie(c, i + 1, best, min)
    ELSE LET n == units_to_pack(c, c.to_pack[i])
         IN  IF best = <<>> \/ n <= min
             THEN FindScanLastOnTie(c, i + 1, <<i>>, n)
             ELSE FindScanLastOnTie(c, i + 1, best, min)

\* the for loop of find_packable_texture from position i on; best is
\* optimal_texture_idx, min is min_units_to_pack (u32::MAX while best is None)
RECURSIVE FindScan(_, _, _, _)
FindScan(c, i, best, min) ==
    IF i > Len(c.to_pack) THEN <<best, min>>
    ELSE IF i \in c.packed THEN FindScan(c, i + 1, best, min)
    ELSE LET n == units_to_pack(c, c.to_pack[i])
         IN  IF best = <<>> \/ n < min
             THEN FindScan(c, i + 1, <<i>>, n)
             ELSE FindScan(c, i + 1, best, min)

\* find_packable_texture with a strict capacity comparison
find_packable_texture_strict(c) ==
    LET found == FindScan(c, 1, <<>>, 0)
    IN  IF found[1] = <<>> THEN <<>>
        ELSE IF Cardinality(DOMAIN c.units) + found[2] < c.unit_capacity
             THEN found[1]
             ELSE <<>>

find_packable_texture(c) ==
    LET found == FindScan(c, 1, <<>>, 0)
    IN  IF found[1] = <<>> THEN <<>>
        ELSE IF Cardinality(DOMAIN c.units) + found[2] <= c.unit_capacity
             THEN found[1]
             ELSE <<>>

\* extend keeping the unit reference a hash already has
RECURSIVE ExtendUnitsKeepFirst(_, _, _, _)
ExtendUnitsKeepFirst(m, units, tex_idx, unit_idx) ==
    IF unit_idx > Len(units) THEN m
    ELSE ExtendUnitsKeepFirst(
             IF units[unit_idx].hash \in DOMAIN m THEN m
             ELSE MapInsert(m, units[unit_idx].hash,
                            [tex_idx |-> tex_idx, unit_idx |-> unit_idx]),
             units, tex_idx, unit_idx + 1)

\* ctx.units.extend(refs): the units of one texture inserted in index order
RECURSIVE ExtendUnits(_, _, _, _)
ExtendUnits(m, units, tex_idx, unit_idx) ==
    IF unit_idx > Len(units) THEN m
    ELSE ExtendUnits(MapInsert(m, units[unit_idx].hash,
                               [tex_idx |-> tex_idx, unit_idx |-> unit_idx]),
                     units, tex_idx, unit_idx + 1)

\* the while-let loop of pack_it
RECURSIVE AdmitTextures(_)
AdmitTextures(c) ==
    LET found == find_packable_texture(c)
    IN  IF found = <<>> THEN c
        ELSE LET tex_idx == found[1]
             IN  AdmitTextures([c EXCEPT
                    !.packed = @ \cup {tex_idx},
                    !.units = ExtendUnits(@, c.to_pack[tex_idx].units, tex_idx, 1)])

\* the loop of eval_atlas_size replacing the size on an equal area too
RECURSIVE CompactScanLastOnTie(_, _, _, _)
CompactScanLastOnTie(c, units_count, width, size) ==
    IF width < 1 THEN size
    ELSE LET height == DivCeil(units_count, width)
         IN  IF height * c.padded_unit_size > c.size_limit THEN size
             ELSE CompactScanLastOnTie(c, units_count, width - 1,
                              IF width * height <= size.width * size.height
                              THEN [width |-> width, height |-> height]
                              ELSE size)

\* the for loop of eval_atlas_size over (1..=size.width).rev(), in units
RECURSIVE CompactScan(_, _, _, _)
CompactScan(c, units_count, width, size) ==
    IF width < 1 THEN size
    ELSE LET height == DivCeil(units_count, width)
         IN  IF height * c.padded_unit_size > c.size_limit THEN size
             ELSE CompactScan(c, units_count, width - 1,
                              IF width * height < size.width * size.height
                              THEN [width |-> width, height |-> height]
                              ELSE size)

eval_atlas_size(c) ==
    LET units_count == Cardinality(DOMAIN c.units)
        size == SqrtCeil(units_count)
    IN  IF c.pot
        THEN LET side == next_power_of_two(size * c.padded_unit_size)
             IN  [width |-> side, height |-> side]
        ELSE IF c.square
        THEN [width |-> size * c.padded_unit_size,
              height |-> size * c.padded_unit_size]
        ELSE LET best == CompactScan(c, units_count, size,
                                     [width |-> size, height |-> size])
             IN  [width |-> best.width * c.padded_unit_size,
                  height |-> best.height * c.padded_unit_size]

\* the two loops of set_pixels from from_idx on (y outer, x inner)
RECURSIVE SetPixelsFrom(_, _, _, _, _, _)
SetPixelsFrom(c, pixels, start_x, start_y, atlas, from_idx) ==
    IF from_idx >= c.padded_unit_size * c.padded_unit_size THEN atlas
    ELSE LET x == start_x + (from_idx % c.padded_unit_size)
             y == start_y + (from_idx \div c.padded_unit_size)
             into_idx == x + atlas.width * y
         IN  SetPixelsFrom(c, pixels, start_x, start_y,
                 [atlas EXCEPT !.pixels[into_idx + 1] = pixels[from_idx + 1]],
                 from_idx + 1)

\* set_pixels reading the block column by column
RECURSIVE SetPixelsTransposedFrom(_, _, _, _, _, _)
SetPixelsTransposedFrom(c, pixels, start_x, start_y, atlas, from_idx) ==
    IF from_idx >= c.padded_unit_size * c.padded_unit_size THEN atlas
    ELSE LET x == start_x + (from_idx \div c.padded_unit_size)
             y == start_y + (from_idx % c.padded_unit_size)
             into_idx == x + atlas.width * y
         IN  SetPixelsTransposedFrom(c, pixels, start_x, start_y,
                 [atlas EXCEPT !.pixels[into_idx + 1] = pixels[from_idx + 1]],
                 from_idx + 1)

set_pixels_transposed(c, pixels, column, row, atlas) ==
    SetPixelsTransposedFrom(c, pixels, column * c.padded_unit_size,
                            row * c.padded_unit_size, atlas, 0)

\* set_pixels stopping one pixel before the end of the block
RECURSIVE SetPixelsShortFrom(_, _, _, _, _, _)
SetPixelsShortFrom(c, pixels, start_x, start_y, atlas, from_idx) ==
    IF from_idx >= c.padded_unit_size * c.padded_unit_size - 1 THEN atlas
    ELSE LET x == start_x + (from_idx % c.padded_unit_size)
             y == start_y + (from_idx \div c.padded_unit_size)
             into_idx == x + atlas.width * y
         IN  SetPixelsShortFrom(c, pixels, start_x, start_y,
                 [atlas EXCEPT !.pixels[into_idx + 1] = pixels[from_idx + 1]],
                 from_idx + 1)

set_pixels_short(c, pixels, column, row, atlas) ==
    SetPixelsShortFrom(c, pixels, column * c.padded_unit_size,
                       row * c.padded_unit_size, atlas, 0)

set_pixels(c, pixels, column, row, atlas) ==
    SetPixelsFrom(c, pixels, column * c.padded_unit_size,
                  row * c.padded_unit_size, atlas, 0)

FRect(x, y, width, height) == [x |-> x, y |-> y, width |-> width, height |-> height]

get_uv(c, column, row, atlas_size) ==
    FRect(Rat(column * c.padded_unit_size + c.pad, atlas_size.width),
          Rat(row * c.padded_unit_size + c.pad, atlas_size.height),
          Rat(c.unit_size, atlas_size.width),
          Rat(c.unit_size, atlas_size.height))

inset_uv(c, rect) ==
    LET d == RMul(c.inset, RDiv(rect.width, RInt(2)))
        dx2 == RMul(d, RInt(2))
    IN  FRect(RAdd(rect.x, d), RAdd(rect.y, d),
              RSub(rect.width, dx2), RSub(rect.height, dx2))

scale_uv(c, rect, unit) ==
    LET mx == Rat(unit.rect.width, c.unit_size)
        my == Rat(unit.rect.height, c.unit_size)
    IN  FRect(rect.x, rect.y, RMul(rect.width, mx), RMul(rect.height, my))

\* sort_unstable on the collected keys (distinct u64 values): insertion sort
RECURSIVE InsertSorted(_, _)
InsertSorted(s, k) ==
    IF s = <<>> THEN <<k>>
    ELSE IF k <= Head(s) THEN <<k>> \o s
    ELSE <<Head(s)>> \o InsertSorted(Tail(s), k)

\* the keys sorted in descending order
RECURSIVE sort_unstable_descending(_)
sort_unstable_descending(s) ==
    IF s = <<>> THEN <<>>
    ELSE LET rest == sort_unstable_descending(Tail(s))
             above == {i \in 1..Len(rest) : rest[i] > Head(s)}
         IN  [i \in 1..(Len(rest) + 1) |->
                 IF i <= Cardinality(above) THEN rest[i]
                 ELSE IF i = Cardinality(above) + 1 THEN Head(s)
                 ELSE rest[i - 1]]

\* the keys left in the order the hash map yields them
sort_unstable_skipped(s) == s

RECURSIVE sort_unstable(_)
sort_unstable(s) ==
    IF s = <<>> THEN <<>> ELSE InsertSorted(sort_unstable(Tail(s)), Head(s))

\* the orders in which ctx.units.keys() can yield the keys of a hash map
KeyOrders(m) ==
    {o \in [1..Cardinality(DOMAIN m) -> DOMAIN m] :
        \A i, j \in DOMAIN o : i # j => o[i] # o[j]}

\* the for loop of bake_atlas from position i (unit_idx = i - 1) on
RECURSIVE BakeFrom(_, _, _, _, _)
BakeFrom(c, size, sorted_hashes, i, baked) ==
    IF i > Len(sorted_hashes) THEN baked
    ELSE LET unit_hash == sorted_hashes[i]
             unit_ref == c.units[unit_hash]
             units_per_row == size.width \div c.padded_unit_size
             row == (i - 1) \div units_per_row
             column == (i - 1) % units_per_row
             unit == c.to_pack[unit_ref.tex_idx].units[unit_ref.unit_idx]
             rect == scale_uv(c, inset_uv(c, get_uv(c, column, row, size)), unit)
         IN  BakeFrom(c, size, sorted_hashes, i + 1,
                 [texture |-> set_pixels(c, unit.pixels, column, row, baked.texture),
                  rects |-> MapInsert(baked.rects, unit_hash, rect)])

\* bake_atlas with its loop starting one position late
bake_atlas_skip_first(c, size, keys) ==
    BakeFrom(c, size, sort_unstable(keys), 2,
        [texture |-> [width |-> size.width, height |-> size.height,
                      pixels |-> [i \in 1..(size.width * size.height) |-> PixelDefault]],
         rects |-> EmptyMap])

\* keys is the sequence ctx.units.keys() yields
bake_atlas(c, size, keys) ==
    BakeFrom(c, size, sort_unstable(keys), 1,
        [texture |-> [width |-> size.width, height |-> size.height,
                      pixels |-> [i \in 1..(size.width * size.height) |-> PixelDefault]],
         rects |-> EmptyMap])

\* swap_remove dropping the last element instead of the one at position i
swap_remove_pop(v, i) == [j \in 1..(Len(v) - 1) |-> v[j]]

\* Vec::swap_remove at position i: the last element takes the place of the removed one
swap_remove(v, i) ==
    [j \in 1..(Len(v) - 1) |-> IF j = i THEN v[Len(v)] ELSE v[j]]

\* the loop of extract_packed_textures from position i downwards
RECURSIVE ExtractFrom(_, _, _)
ExtractFrom(c, i, packed) ==
    IF i < 1 THEN [ctx |-> c, packed |-> packed]
    ELSE IF i \in c.packed
         THEN ExtractFrom([c EXCEPT !.to_pack = swap_remove(@, i)], i - 1,
                          Append(packed, c.to_pack[i]))
         ELSE ExtractFrom(c, i - 1, packed)

\* extract_packed_textures cloning the packed textures instead of removing them
extract_packed_textures_keep(c) ==
    [ctx |-> c, packed |-> ExtractFrom(c, Len(c.to_pack), <<>>).packed]

extract_packed_textures(c) == ExtractFrom(c, Len(c.to_pack), <<>>)

\* pack_it on the context c, keys being the sequence ctx.units.keys() yields:
\* the error, or the atlas and the context left behind
pack_it(c, keys) ==
    LET a == AdmitTextures(c)
    IN  IF a.packed = {} THEN [err |-> <<ErrCantFit>>]
        ELSE LET size == eval_atlas_size(a)
                 baked == bake_atlas(a, size, keys)
                 extracted == extract_packed_textures(a)
             IN  [err |-> <<>>,
                  ctx |-> extracted.ctx,
                  admitted |-> {a.to_pack[i].id : i \in a.packed},
                  atlas |-> [texture |-> baked.texture, rects |-> baked.rects,
                             packed |-> extracted.packed]]

(* ------------------------------ state machine -------------------------- *)

NoCtx == <<>>
NoResult == [kind |-> "none"]
Err(msg) == [kind |-> "Err", msg |-> msg]
Ok(v) == [kind |-> "Ok", atlases |-> v]

SpriteLists ==
    UNION {[1..n -> Fixtures] : n \in 0..MaxSprites}

\* The caller's sprites and the two Prefs fields the dicer reads (new_ctx of
\* dicer.rs); the fields only the packer reads are drawn when pack is entered.
Init ==
    /\ \E list \in SpriteLists :
          sprites = [i \in DOMAIN list |-> [id |-> i, texture |-> list[i]]]
    /\ \E unit_size \in 0..MaxUnit, padding \in 0..MaxPad :
          prefs = [unit_size |-> unit_size, padding |-> padding]
    /\ pc = "dice"
    /\ idx = 0
    /\ textures = <<>>
    /\ progress = <<>>
    /\ ctx = NoCtx
    /\ atlases = <<>>
    /\ admitted = <<>>
    /\ result = NoResult
    /\ prev = NoResult

\* dice: the two checks
dice_check(p) ==
    IF p.unit_size = 0 THEN <<ErrUnitZero>>
    ELSE IF p.padding > p.unit_size THEN <<ErrPadding>>
    ELSE <<>>

\* dice returns an error before its loop
DiceReject ==
    /\ pc = "dice"
    /\ dice_check(prefs) # <<>>
    /\ result' = Err(dice_check(prefs)[1])
    /\ pc' = "done"
    /\ UNCHANGED <<sprites, prefs, idx, textures, progress, ctx, atlases, admitted, prev>>

\* one iteration of the loop of dice
DiceSprite ==
    /\ pc = "dice"
    /\ dice_check(prefs) = <<>>
    /\ idx < Len(sprites)
    /\ progress' = Report(progress, 1, idx, Len(sprites))
    /\ textures' = textures \o dice_it(prefs.unit_size, prefs.padding, sprites[idx + 1])
    /\ idx' = idx + 1
    /\ UNCHANGED <<sprites, prefs, pc, ctx, atlases, admitted, result, prev>>

\* dice returns Ok(textures); the caller passes them on to pack
DiceReturn ==
    /\ pc = "dice"
    /\ dice_check(prefs) = <<>>
    /\ idx = Len(sprites)
    /\ pc' = "pack"
    /\ UNCHANGED <<sprites, prefs, idx, textures, progress, ctx, atlases, admitted,
                   result, prev>>

\* pack testing the size limit before the inset
pack_check_reordered(p) ==
    IF p.atlas_size_limit = 0 THEN <<ErrLimitZero>>
    ELSE IF RLess(Half, p.uv_inset) THEN <<ErrInset>>
    ELSE IF p.unit_size > p.atlas_size_limit THEN <<ErrUnitAboveLimit>>
    ELSE <<>>

\* pack: the three checks
pack_check(p) ==
    IF RLess(Half, p.uv_inset) THEN <<ErrInset>>
    ELSE IF p.atlas_size_limit = 0 THEN <<ErrLimitZero>>
    ELSE IF p.unit_size > p.atlas_size_limit THEN <<ErrUnitAboveLimit>>
    ELSE <<>>

\* pack up to its loop, called with the diced textures and the preferences p
PackEnter(p) ==
    /\ prefs' = p
    /\ IF pack_check(p) # <<>>
       THEN /\ result' = Err(pack_check(p)[1])
            /\ pc' = "done"
            /\ ctx' = NoCtx
       ELSE /\ result' = NoResult
            /\ pc' = "packing"
            /\ ctx' = new_ctx(textures, p)
    /\ atlases' = <<>>
    /\ admitted' = <<>>
    /\ UNCHANGED <<sprites, idx, textures, progress>>

PackStart ==
    /\ pc = "pack"
    /\ \E inset \in -1..MaxInset, limit \in 0..MaxLimit, square \in BOOLEAN, pot \in BOOLEAN :
          PackEnter([unit_size |-> prefs.unit_size, padding |-> prefs.padding,
                     uv_inset |-> Rat(inset, InsetDen), atlas_size_limit |-> limit,
                     atlas_square |-> square, atlas_pot |-> pot])
    /\ UNCHANGED prev

\* one iteration of the loop of pack
PackRound ==
    /\ pc = "packing"
    /\ ctx.to_pack # <<>>
    /\ progress' = Report(progress, 2, Len(textures) - Len(ctx.to_pack), Len(textures))
    /\ \E keys \in KeyOrders(AdmitTextures(ctx).units) :
          LET round == pack_it(ctx, keys)
          IN  IF round.err # <<>>
              THEN /\ result' = Err(round.err[1])
                   /\ pc' = "done"
                   /\ ctx' = NoCtx
                   /\ atlases' = <<>>
                   /\ UNCHANGED admitted
              ELSE /\ atlases' = Append(atlases, round.atlas)
                   /\ ctx' = [round.ctx EXCEPT !.packed = {}, !.units = EmptyMap]
                   /\ admitted' = Append(admitted, round.admitted)
                   /\ UNCHANGED <<result, pc>>
    /\ UNCHANGED <<sprites, prefs, idx, textures, prev>>

\* the loop of pack ends: Ok(atlases)
PackReturn ==
    /\ pc = "packing"
    /\ ctx.to_pack = <<>>
    /\ result' = Ok(atlases)
    /\ pc' = "done"
    /\ ctx' = NoCtx
    /\ atlases' = <<>>
    /\ UNCHANGED <<sprites, prefs, idx, textures, progress, admitted, prev>>

\* pack, having got past its checks and returned, is called once more with the
\* same diced textures and preferences
PackAgain ==
    /\ pc = "done"
    /\ prev = NoResult
    /\ "uv_inset" \in DOMAIN prefs
    /\ pack_check(prefs) = <<>>
    /\ prev' = result
    /\ PackEnter(prefs)

Next ==
    \/ DiceReject
    \/ DiceSprite
    \/ DiceReturn
    \/ PackStart
    \/ PackRound
    \/ PackReturn

Spec == Init /\ [][Next]_vars

NextTwice == Next \/ PackAgain

SpecTwice == Init /\ [][NextTwice]_vars

\* A context as eval_atlas_size can be handed one: preferences that pass the
\* checks of dice and pack, and a unit pool of n hashes within unit_capacity.
InitSize ==
    /\ \E unit_size \in 1..MaxUnit, padding \in 0..MaxPad, limit \in 1..MaxSizeLimit,
          square \in BOOLEAN, pot \in BOOLEAN, n \in 1..MaxHashes :
          /\ prefs = [unit_size |-> unit_size, padding |-> padding,
                      uv_inset |-> RInt(0), atlas_size_limit |-> limit,
                      atlas_square |-> square, atlas_pot |-> pot]
          /\ dice_check(prefs) = <<>>
          /\ pack_check(prefs) = <<>>
          /\ n <= new_ctx(<<>>, prefs).unit_capacity
          /\ ctx = [new_ctx(<<>>, prefs) EXCEPT
                       !.units = [h \in 1..n |-> [tex_idx |-> 1, unit_idx |-> h]]]
    /\ sprites = <<>>
    /\ pc = "size"
    /\ idx = 0
    /\ textures = <<>>
    /\ progress = <<>>
    /\ atlases = <<>>
    /\ admitted = <<>>
    /\ result = NoResult
    /\ prev = NoResult

\* eval_atlas_size applied to the context
EvalSize ==
    /\ pc = "size"
    /\ result' = [kind |-> "size", size |-> eval_atlas_size(ctx)]
    /\ pc' = "sized"
    /\ UNCHANGED <<sprites, prefs, idx, textures, progress, ctx, atlases, admitted, prev>>

NextSize == Next \/ EvalSize

\* the runs of dice and pack, and eval_atlas_size on contexts of its own
SpecSize == (Init \/ InitSize) /\ [][NextSize]_vars

(* ------------------------------ claims --------------------------------- *)

\* the atlases pack has returned
Returned == IF result.kind = "Ok" THEN result.atlases ELSE <<>>

PackCalled == "uv_inset" \in DOMAIN prefs

SeqSum(f) ==
    LET S[i \in 0..Len(f)] == IF i = 0 THEN 0 ELSE S[i - 1] + f[i]
    IN  S[Len(f)]

\* C1: in every atlas pack returns, the hash of every unit of every texture of
\* the atlas's packed list is a key of that atlas's rects map.
C1_PackedHashesHaveRects ==
    \A k \in 1..Len(Returned) :
        \A j \in 1..Len(Returned[k].packed) :
            \A u \in 1..Len(Returned[k].packed[j].units) :
                Returned[k].packed[j].units[u].hash \in DOMAIN Returned[k].rects

\* an atlas was returned that holds two textures
C1_Witness ==
    \E k \in 1..Len(Returned) :
        /\ Len(Returned[k].packed) = 2
        /\ Returned[k].packed[1].unique # Returned[k].packed[2].unique

\* the atlases completed so far: pack's local vector, then its Ok value
Completed == IF pc = "packing" THEN atlases ELSE Returned

\* C2: every round moves exactly the textures it admitted from to_pack to the
\* atlas's packed list, and when pack returns Ok every diced texture is in the
\* packed list of exactly one atlas and nothing else is in any packed list.
C2_PackedIsPartitionOfInput ==
    /\ \A k \in 1..Len(Completed) :
          /\ {Completed[k].packed[j].id : j \in 1..Len(Completed[k].packed)} = admitted[k]
          /\ Len(Completed[k].packed) = Cardinality(admitted[k])
          /\ \A j \in 1..Len(Completed[k].packed) :
                \E i \in 1..Len(textures) : textures[i] = Completed[k].packed[j]
    /\ pc = "packing" =>
          /\ Len(admitted) = Len(atlases)
          /\ \A i \in 1..Len(ctx.to_pack) :
                /\ \E t \in 1..Len(textures) : textures[t] = ctx.to_pack[i]
                /\ \A k \in 1..Len(admitted) : ctx.to_pack[i].id \notin admitted[k]
          /\ Len(ctx.to_pack) + SeqSum([k \in 1..Len(atlases) |-> Len(atlases[k].packed)])
                = Len(textures)
    /\ result.kind = "Ok" =>
          \A i \in 1..Len(textures) :
              Cardinality({<<k, j>> \in (1..Len(Returned)) \X (1..MaxSprites + 1) :
                              /\ j <= Len(Returned[k].packed)
                              /\ Returned[k].packed[j] = textures[i]}) = 1

\* pack returned two atlases, the first one holding the first diced texture:
\* its swap-removal moved the other texture to the front of to_pack
C2_Witness ==
    /\ result.kind = "Ok"
    /\ Len(Returned) = 2
    /\ Returned[1].packed = <<textures[1]>>
    /\ Returned[2].packed = <<textures[2]>>

\* the pixel of an atlas texture at (x, y)
AtlasPixel(tex, x, y) == tex.pixels[(x + tex.width * y) + 1]

\* the pixel origin of the interior a UV rectangle of the atlas points at: the
\* inverse of get_uv and inset_uv
InteriorOrigin(atlas, rect) ==
    LET d == RMul(prefs.uv_inset, RDiv(Rat(prefs.unit_size, atlas.texture.width), RInt(2)))
    IN  <<RMul(RSub(rect.x, d), RInt(atlas.texture.width)),
          RMul(RSub(rect.y, d), RInt(atlas.texture.height))>>

\* the grid cells of a sprite that are not fully transparent
OpaqueCells(sprite) ==
    {cell \in (0..(DivCeil(sprite.texture.width, prefs.unit_size) - 1))
              \X (0..(DivCeil(sprite.texture.height, prefs.unit_size) - 1)) :
        \E x \in 0..(prefs.unit_size - 1), y \in 0..(prefs.unit_size - 1) :
            get_pixel(cell[1] * prefs.unit_size + x,
                      cell[2] * prefs.unit_size + y, sprite.texture).a # 0}

CellReproduced(sprite, cell, atlas) ==
    LET S == prefs.unit_size
        cell_rect == [x |-> cell[1] * S, y |-> cell[2] * S, width |-> S, height |-> S]
        h == hash(get_pixels(cell_rect, sprite.texture))
    IN  /\ h \in DOMAIN atlas.rects
        /\ LET o == InteriorOrigin(atlas, atlas.rects[h])
           IN  /\ o[1][2] = 1 /\ o[2][2] = 1
               /\ \A x \in 0..(S - 1), y \in 0..(S - 1) :
                     AtlasPixel(atlas.texture, o[1][1] + x, o[2][1] + y)
                        = get_pixel(cell[1] * S + x, cell[2] * S + y, sprite.texture)

\* C3: when pack returns Ok, every non-transparent grid cell of every source
\* sprite is found again, pixel by pixel, in the interior of the block its hash
\* has in the atlas that lists the sprite.
C3_DicePackReproduces ==
    result.kind = "Ok" =>
        \A i \in 1..Len(sprites) :
            \A cell \in OpaqueCells(sprites[i]) :
                \E k \in 1..Len(Returned) :
                    /\ \E j \in 1..Len(Returned[k].packed) :
                          Returned[k].packed[j].id = sprites[i].id
                    /\ CellReproduced(sprites[i], cell, Returned[k])

\* two atlases were returned with atlas_pot forced, for two sprites of which
\* one has a cell that differs from its transpose and one is cropped at the
\* border
C3_Witness ==
    /\ result.kind = "Ok"
    /\ Len(Returned) = 2
    /\ prefs.atlas_pot
    /\ prefs.unit_size = 2
    /\ \E i \in 1..Len(sprites) : sprites[i].texture = RR2X1
    /\ \E i \in 1..Len(sprites) : sprites[i].texture = BYRT

\* uv_inset lies in the documented range
InsetInRange == RLeq(RInt(0), prefs.uv_inset) /\ RLeq(prefs.uv_inset, Rat(1, 2))

\* C4: width and height of every atlas pack returns for valid preferences are
\* at most atlas_size_limit.
C4_AtlasWithinLimit ==
    \A k \in 1..Len(Returned) :
        InsetInRange =>
        /\ Returned[k].texture.width <= prefs.atlas_size_limit
        /\ Returned[k].texture.height <= prefs.atlas_size_limit

\* unit_capacity as the claim states it
ClaimedCapacity ==
    LET per_row == prefs.atlas_size_limit \div (prefs.unit_size + 2 * prefs.padding)
    IN  per_row * per_row

\* C5: once pack's three checks pass, pack returns the "Can't fit single
\* texture" error exactly when some diced texture has more distinct hashes than
\* unit_capacity, and the error carries no atlas.
C5_CantFitIffTextureAboveCapacity ==
    (pc = "done" /\ PackCalled /\ pack_check(prefs) = <<>>) =>
        /\ result = Err(ErrCantFit)
             <=> \E i \in 1..Len(textures) :
                    Cardinality(textures[i].unique) > ClaimedCapacity
        /\ result.kind = "Err" => DOMAIN result = {"kind", "msg"} /\ atlases = <<>>

\* the error was returned after an earlier round had completed an atlas
C5_Witness ==
    /\ result = Err(ErrCantFit)
    /\ Len(admitted) >= 1

NoWorkByDice ==
    /\ progress = <<>>
    /\ textures = <<>>
    /\ idx = 0
    /\ ~PackCalled

NoWorkByPack ==
    /\ \A i \in 1..Len(progress) : progress[i].stage # 2
    /\ admitted = <<>>
    /\ atlases = <<>>

C7_OkOnlyForInsetInRange ==
    result.kind = "Ok" =>
        /\ RLeq(RInt(0), prefs.uv_inset)
        /\ RLeq(prefs.uv_inset, Rat(1, 2))

\* C8: a second run of pack on the same diced textures and preferences
\* returns the same result as the first, whatever order the keys of ctx.units
\* are yielded in.
C8_SecondRunSameResult ==
    (pc = "done" /\ prev # NoResult) => result = prev

\* both runs returned an atlas holding three units
C8_Witness ==
    /\ pc = "done"
    /\ prev.kind = "Ok"
    /\ result.kind = "Ok"
    /\ \E k \in 1..Len(Returned) : Cardinality(DOMAIN Returned[k].rects) >= 3

PaddedUnitSize == prefs.unit_size + 2 * prefs.padding

NonDefaultCount(tex) ==
    Cardinality({i \in 1..Len(tex.pixels) : tex.pixels[i] # PixelDefault})

\* C9: in every atlas returned for valid preferences the number of pixels other than (0,0,0,0) is
\* the number of distinct hashes times the square of the padded unit size.
C9_NonDefaultPixelCount ==
    \A k \in 1..Len(Returned) :
        InsetInRange =>
        NonDefaultCount(Returned[k].texture)
            = Cardinality(DOMAIN Returned[k].rects) * PaddedUnitSize * PaddedUnitSize

\* the pixel (x, y) of the atlas lies in one of its first n blocks
InPlacedBlock(atlas, n, x, y) ==
    LET per_row == atlas.texture.width \div PaddedUnitSize
        column == x \div PaddedUnitSize
        row == y \div PaddedUnitSize
    IN  column < per_row /\ row * per_row + column < n

NoDefaultPixelPacked(atlas) ==
    \A j \in 1..Len(atlas.packed) :
        \A u \in 1..Len(atlas.packed[j].units) :
            \A i \in 1..Len(atlas.packed[j].units[u].pixels) :
                atlas.packed[j].units[u].pixels[i] # PixelDefault

\* C9 as amended: every pixel outside the blocks of the placed units is
\* (0,0,0,0), so the count of other pixels is at most hashes * padded_unit_size^2,
\* and it is equal when no padded block of the packed textures holds a
\* (0,0,0,0) pixel.
C9_NonDefaultPixelsInsideBlocks ==
    \A k \in 1..Len(Returned) :
        LET atlas == Returned[k]
            n == Cardinality(DOMAIN atlas.rects)
        IN  /\ \A x \in 0..(atlas.texture.width - 1), y \in 0..(atlas.texture.height - 1) :
                  ~InPlacedBlock(atlas, n, x, y)
                      => AtlasPixel(atlas.texture, x, y) = PixelDefault
            /\ NonDefaultCount(atlas.texture) <= n * PaddedUnitSize * PaddedUnitSize
            /\ NoDefaultPixelPacked(atlas)
                  => NonDefaultCount(atlas.texture) = n * PaddedUnitSize * PaddedUnitSize

\* an atlas with room to spare was returned that holds three units, none of
\* the padded blocks of its textures holding a (0,0,0,0) pixel
C9_Witness ==
    \E k \in 1..Len(Returned) :
        /\ NoDefaultPixelPacked(Returned[k])
        /\ Cardinality(DOMAIN Returned[k].rects) = 3
        /\ Len(Returned[k].texture.pixels) > 3 * PaddedUnitSize * PaddedUnitSize

\* C10: for valid preferences, the UV rectangle an atlas stores for the hash of a unit cropped at the
\* right or bottom border is the inset interior scaled by that unit's own crop
\* ratio on each axis.
C10_CroppedUnitUvScaled ==
    \A k \in 1..Len(Returned) :
        \A j \in 1..Len(Returned[k].packed) :
            \A u \in 1..Len(Returned[k].packed[j].units) :
                LET atlas == Returned[k]
                    unit == atlas.packed[j].units[u]
                    w == Rat(prefs.unit_size, atlas.texture.width)
                    h == Rat(prefs.unit_size, atlas.texture.height)
                    dx2 == RMul(prefs.uv_inset, w)
                IN  (/\ InsetInRange
                     /\ (unit.rect.width < prefs.unit_size
                            \/ unit.rect.height < prefs.unit_size))
                    => /\ unit.hash \in DOMAIN atlas.rects
                       /\ atlas.rects[unit.hash].width
                             = RMul(RSub(w, dx2), Rat(unit.rect.width, prefs.unit_size))
                       /\ atlas.rects[unit.hash].height
                             = RMul(RSub(h, dx2), Rat(unit.rect.height, prefs.unit_size))

\* a UV rectangle lies in the unit square and has a non-negative extent
InUnitSquare(r) ==
    /\ RLeq(RInt(0), r.x) /\ RLeq(RInt(0), r.y)
    /\ RLeq(RInt(0), r.width) /\ RLeq(RInt(0), r.height)
    /\ RLeq(RAdd(r.x, r.width), RInt(1))
    /\ RLeq(RAdd(r.y, r.height), RInt(1))

\* C11: for a uv_inset between 0.0 and 0.5, every UV rectangle in the rects map
\* of every atlas pack returns lies in the unit square with a non-negative
\* width and height.
C11_UvRectInUnitSquare ==
    \A k \in 1..Len(Returned) :
        InsetInRange =>
            \A h \in DOMAIN Returned[k].rects : InUnitSquare(Returned[k].rects[h])

\* the units dice emitted for the sprite at position i of the input
UnitsOf(i) ==
    IF \E t \in 1..Len(textures) : textures[t].id = sprites[i].id
    THEN (CHOOSE d \in {textures[t] : t \in 1..Len(textures)} :
              d.id = sprites[i].id).units
    ELSE <<>>

GridCells(sprite) ==
    (0..(DivCeil(sprite.texture.width, prefs.unit_size) - 1))
        \X (0..(DivCeil(sprite.texture.height, prefs.unit_size) - 1))

\* what C12 says of a diced sprite, the case of a unit size above both
\* dimensions apart
UnitCountOfSprite(i) ==
    LET units == UnitsOf(i)
        S == prefs.unit_size
        cells == GridCells(sprites[i])
        opaque == OpaqueCells(sprites[i])
    IN  /\ Len(units) = Cardinality(opaque)
        /\ {<<units[u].rect.x, units[u].rect.y>> : u \in 1..Len(units)}
              = {<<cell[1] * S, cell[2] * S>> : cell \in opaque}
        /\ Len(units) <= Cardinality(cells)
        /\ Len(units) = Cardinality(cells) <=> opaque = cells
        /\ Cardinality({t \in 1..Len(textures) : textures[t].id = sprites[i].id})
              = IF opaque = {} THEN 0 ELSE 1

UnitAboveTexture(i) ==
    /\ prefs.unit_size > sprites[i].texture.width
    /\ prefs.unit_size > sprites[i].texture.height

HasOpaquePixel(tex) == \E p \in 1..Len(tex.pixels) : tex.pixels[p].a # 0

\* C12: dice (whose output is complete, and no longer changes, once it
\* returns) emits one unit for exactly the grid cells whose sampled pixels are
\* not all of alpha 0; the count is at most ceil(W/S) * ceil(H/S), equal to it
\* iff no cell is fully transparent, is the same for every padding, is 1
\* whenever S exceeds both W and H, and a sprite with no such cell yields no
\* DicedTexture.
C12_UnitCount ==
    pc = "dice" =>
    \A i \in 1..idx :
        /\ UnitCountOfSprite(i)
        /\ UnitAboveTexture(i) => Len(UnitsOf(i)) = 1

\* C12 as amended: the same, the count for S above both W and H being 1 when
\* the texture has a pixel of non-zero alpha and 0 when it has none.
C12_UnitCountOpaque ==
    pc = "dice" =>
    \A i \in 1..idx :
        /\ UnitCountOfSprite(i)
        /\ UnitAboveTexture(i) =>
              Len(UnitsOf(i)) = IF HasOpaquePixel(sprites[i].texture) THEN 1 ELSE 0

\* with a padding and a unit above both of their dimensions, an opaque sprite
\* was diced into one unit and a fully transparent one into none
C12_Witness ==
    /\ prefs.padding > 0
    /\ \E i \in 1..idx :
          /\ UnitAboveTexture(i)
          /\ Len(UnitsOf(i)) = 1
    /\ \E i \in 1..idx :
          /\ UnitAboveTexture(i)
          /\ Len(UnitsOf(i)) = 0

Clamp(v, lo, hi) == IF v < lo THEN lo ELSE IF v > hi THEN hi ELSE v

\* C13: while dice runs and when it returns, the pixels of every diced unit
\* are (unit_size + 2 * padding)^2 many, and the one at block row j, block
\* column i is the source pixel at
\* (clamp(x*S - padding + i, 0, W-1), clamp(y*S - padding + j, 0, H-1)).
C13_PaddedPixelsClamped ==
    pc = "dice" =>
    \A t \in 1..Len(textures) :
        \A u \in 1..Len(textures[t].units) :
            LET unit == textures[t].units[u]
                tex == sprites[textures[t].id].texture
                side == prefs.unit_size + 2 * prefs.padding
            IN  /\ Len(unit.pixels) = side * side
                /\ \A i \in 0..(side - 1), j \in 0..(side - 1) :
                      unit.pixels[(j * side + i) + 1]
                         = tex.pixels[(Clamp(unit.rect.x - prefs.padding + i, 0, tex.width - 1)
                                       + tex.width
                                           * Clamp(unit.rect.y - prefs.padding + j, 0,
                                                   tex.height - 1)) + 1]

\* a unit of a 2x2 texture was diced with padding 1 and unit size 1: its block
\* has neighbouring source pixels on one side and the texture border on the other
C13_Witness ==
    /\ prefs.unit_size = 1
    /\ prefs.padding = 1
    /\ \E t \in 1..Len(textures) :
          /\ sprites[textures[t].id].texture.width = 2
          /\ \E u \in 1..Len(textures[t].units) :
                /\ textures[t].units[u].rect.x = 1
                /\ textures[t].units[u].pixels[4] # textures[t].units[u].pixels[6]

\* the positions of the progress log that hold reports of a stage
StageReports(stage) == {i \in 1..Len(progress) : progress[i].stage = stage}

\* the number of textures the rounds before round k placed
PlacedBefore(k) == SeqSum([r \in 1..(k - 1) |-> Cardinality(admitted[r])])

\* C14: dice reports once per sprite and pack once per atlas round; the ratio
\* is stage/5 + 0.2 * (step_index + 1) / step_total, step_index being the
\* sprite's index for dice and the number of textures placed in earlier rounds
\* for pack; dice's ratios lie in (0.2, 0.4], pack's in (0.4, 0.6], and within
\* a call every ratio is above the one reported before it.
C14_ProgressRatio ==
    /\ Cardinality(StageReports(1)) = idx
    /\ Cardinality(StageReports(2))
          = Len(admitted) + (IF result = Err(ErrCantFit) THEN 1 ELSE 0)
    /\ StageReports(1) \cup StageReports(2) = 1..Len(progress)
    /\ \A i \in StageReports(1) :
          /\ progress[i].num = i /\ progress[i].len = Len(sprites)
          /\ RLess(Rat(1, 5), progress[i].ratio)
          /\ RLeq(progress[i].ratio, Rat(2, 5))
    /\ \A i \in StageReports(2) :
          /\ i > idx
          /\ progress[i].num = PlacedBefore(i - idx) + 1
          /\ progress[i].len = Len(textures)
          /\ RLess(Rat(2, 5), progress[i].ratio)
          /\ RLeq(progress[i].ratio, Rat(3, 5))
    /\ \A i \in 1..Len(progress) :
          progress[i].ratio
             = RAdd(Rat(progress[i].stage, 5), Rat(progress[i].num, 5 * progress[i].len))
    /\ \A i, j \in 1..Len(progress) :
          (i < j /\ progress[i].stage = progress[j].stage)
              => RLess(progress[i].ratio, progress[j].ratio)

\* dice reported for two sprites and pack for two rounds
C14_Witness ==
    /\ Cardinality(StageReports(1)) = 2
    /\ Cardinality(StageReports(2)) = 2
    /\ result.kind = "Ok"

\* the positions in to_pack of the textures a round admits, in admission order
RECURSIVE AdmitOrder(_)
AdmitOrder(c) ==
    LET found == find_packable_texture(c)
    IN  IF found = <<>> THEN <<>>
        ELSE <<found[1]>> \o AdmitOrder([c EXCEPT
                 !.packed = @ \cup {found[1]},
                 !.units = [h \in (DOMAIN @) \cup c.to_pack[found[1]].unique |-> 0]])

SetMin(S) == CHOOSE x \in S : \A y \in S : x <= y
SetMax(S) == CHOOSE x \in S : \A y \in S : x >= y

\* the admission steps whose texture has a unit of hash h
HoldersOf(c, order, h) == {k \in 1..Len(order) : h \in c.to_pack[order[k]].unique}

UnitsWithHash(tex, h) == {u \in 1..Len(tex.units) : tex.units[u].hash = h}

FirstInserted(c, order, h) ==
    LET t == order[SetMin(HoldersOf(c, order, h))]
    IN  [tex_idx |-> t, unit_idx |-> SetMin(UnitsWithHash(c.to_pack[t], h))]

LastInserted(c, order, h) ==
    LET t == order[SetMax(HoldersOf(c, order, h))]
    IN  [tex_idx |-> t, unit_idx |-> SetMax(UnitsWithHash(c.to_pack[t], h))]

\* the atlas shows the unit ref points at under hash h: its padded block is
\* the block of h and its rect scales the UV rectangle of h
AtlasUses(c, atlas, h, ref) ==
    LET unit == c.to_pack[ref.tex_idx].units[ref.unit_idx]
        side == c.padded_unit_size
        w == Rat(c.unit_size, atlas.texture.width)
        hgt == Rat(c.unit_size, atlas.texture.height)
        dx2 == RMul(c.inset, w)
        o == InteriorOrigin(atlas, atlas.rects[h])
    IN  /\ atlas.rects[h].width = RMul(RSub(w, dx2), Rat(unit.rect.width, c.unit_size))
        /\ atlas.rects[h].height = RMul(RSub(hgt, dx2), Rat(unit.rect.height, c.unit_size))
        /\ o[1][2] = 1 /\ o[2][2] = 1
        /\ \A i \in 0..(side - 1), j \in 0..(side - 1) :
              AtlasPixel(atlas.texture, o[1][1] - c.pad + i, o[2][1] - c.pad + j)
                 = unit.pixels[(j * side + i) + 1]

\* a round has completed an atlas in this step
RoundCompleted == pc = "packing" /\ Len(atlases') = Len(atlases) + 1

\* the round of this step used, for every hash, the unit Pick names
RoundUses(Pick(_, _, _)) ==
    LET order == AdmitOrder(ctx)
        atlas == atlases'[Len(atlases')]
    IN  /\ DOMAIN atlas.rects
              = UNION {ctx.to_pack[order[k]].unique : k \in 1..Len(order)}
        /\ \A h \in DOMAIN atlas.rects :
              AtlasUses(ctx, atlas, h, Pick(ctx, order, h))

\* C15: for valid preferences, of several units with the same hash among the
\* textures admitted to an atlas, the atlas uses the first one inserted: the unit of the
\* earliest-admitted texture, within it the one of lowest index.
C15_FirstInsertWins ==
    [][(RoundCompleted /\ InsetInRange) => RoundUses(FirstInserted)]_vars

\* C15 as amended: the atlas uses the last one inserted: the unit of the
\* latest-admitted texture that has the hash, within it the one of highest
\* index.
C15_LastInsertWins == [][RoundCompleted => RoundUses(LastInserted)]_vars

\* an atlas was returned for two textures of which the first packed holds
\* two units of one hash with different padded blocks, the other texture
\* holding a unit of that hash with a third block
C15_Witness ==
    \E k \in 1..Len(Returned) :
        /\ Len(Returned[k].packed) = 2
        /\ Len(Returned[k].packed[1].units) = 2
        /\ Returned[k].packed[1].units[1].hash = Returned[k].packed[1].units[2].hash
        /\ Returned[k].packed[1].units[1].pixels # Returned[k].packed[1].units[2].pixels
        /\ Returned[k].packed[2].units[1].hash = Returned[k].packed[1].units[1].hash
        /\ Returned[k].packed[2].units[1].pixels # Returned[k].packed[1].units[1].pixels
        /\ Returned[k].packed[2].units[1].pixels # Returned[k].packed[1].units[2].pixels

\* the unit pool and the candidates at the k-th selection step of a round
PoolBefore(c, order, k) == UNION {c.to_pack[order[j]].unique : j \in 1..(k - 1)}
Candidates(c, order, k) == (1..Len(c.to_pack)) \ {order[j] : j \in 1..(k - 1)}
Missing(c, pool, i) == Cardinality(c.to_pack[i].unique \ pool)

\* the k-th texture admitted has the fewest missing hashes, the lowest index
\* among those that have, and fits
GreedyStep(c, order, k) ==
    LET pool == PoolBefore(c, order, k)
        t == order[k]
    IN  /\ t \in Candidates(c, order, k)
        /\ \A i \in Candidates(c, order, k) :
              /\ Missing(c, pool, t) <= Missing(c, pool, i)
              /\ Missing(c, pool, i) = Missing(c, pool, t) => t <= i
        /\ Cardinality(pool) + Missing(c, pool, t) <= c.unit_capacity

\* selection stopped because no texture was left or the best one did not fit
GreedyStop(c, order) ==
    LET k == Len(order) + 1
        pool == PoolBefore(c, order, k)
    IN  \A i \in Candidates(c, order, k) :
            Cardinality(pool) + Missing(c, pool, i) > c.unit_capacity

\* a round of pack ran in this step
RoundRan == pc = "packing" /\ Len(progress') = Len(progress) + 1

\* C16: every selection step of a round admits, among the textures not yet
\* admitted to the atlas, the one with the fewest hashes absent from the unit
\* pool, the lowest index winning a tie, and only if the pool plus those
\* hashes is within unit_capacity; selection stops otherwise, and no atlas has
\* more distinct hashes than unit_capacity.
C16_GreedySelection ==
    [][RoundRan =>
          LET order == AdmitOrder(ctx)
          IN  /\ \A k \in 1..Len(order) : GreedyStep(ctx, order, k)
              /\ GreedyStop(ctx, order)
              /\ IF order = <<>>
                 THEN result' = Err(ErrCantFit)
                 ELSE LET atlas == atlases'[Len(atlases')]
                      IN  /\ admitted'[Len(admitted')]
                                = {ctx.to_pack[order[k]].id : k \in 1..Len(order)}
                          /\ DOMAIN atlas.rects = PoolBefore(ctx, order, Len(order) + 1)
                          /\ Cardinality(DOMAIN atlas.rects) <= ctx.unit_capacity]_vars

\* the first round admitted the second of two diced textures only, the first
\* one having more hashes than fit beside it, and the next round failed on it
C16_Witness ==
    /\ Len(textures) = 2
    /\ admitted = <<{textures[2].id}>>
    /\ Cardinality(textures[1].unique) > Cardinality(textures[2].unique)
    /\ result = Err(ErrCantFit)

\* the index of hash h in the ascending sort of the hashes of an atlas
RankOf(atlas, h) == Cardinality({g \in DOMAIN atlas.rects : g < h})

\* C17: in every atlas the unit whose hash has index i in the ascending sort
\* of the atlas's hashes lies, row-major and unrotated, in the block with pixel
\* origin ((i mod units_per_row) * padded_unit_size,
\* (i div units_per_row) * padded_unit_size), units_per_row being the atlas
\* width div padded_unit_size, and the block lies inside the atlas texture.
C17_BlocksInHashOrder ==
    \A k \in 1..Len(Completed) :
        \A h \in DOMAIN Completed[k].rects :
            LET atlas == Completed[k]
                side == PaddedUnitSize
                units_per_row == atlas.texture.width \div side
                ox == (RankOf(atlas, h) % units_per_row) * side
                oy == (RankOf(atlas, h) \div units_per_row) * side
            IN  /\ units_per_row >= 1
                /\ ox + side <= atlas.texture.width
                /\ oy + side <= atlas.texture.height
                /\ Len(atlas.texture.pixels) = atlas.texture.width * atlas.texture.height
                /\ InteriorOrigin(atlas, atlas.rects[h])
                      = <<RInt(ox + prefs.padding), RInt(oy + prefs.padding)>>
                /\ \E j \in 1..Len(atlas.packed) :
                      \E u \in 1..Len(atlas.packed[j].units) :
                          /\ atlas.packed[j].units[u].hash = h
                          /\ \A x \in 0..(side - 1), y \in 0..(side - 1) :
                                AtlasPixel(atlas.texture, ox + x, oy + y)
                                   = atlas.packed[j].units[u].pixels[(y * side + x) + 1]

\* an atlas two blocks wide was returned whose third unit starts the second row
C17_Witness ==
    \E k \in 1..Len(Returned) :
        /\ Cardinality(DOMAIN Returned[k].rects) = 3
        /\ Returned[k].texture.width = 2 * PaddedUnitSize
        /\ Returned[k].texture.height = 2 * PaddedUnitSize

\* ceil(sqrt(n)): the least s with s * s >= n
CeilSqrt(n) == CHOOSE s \in 0..n : s * s >= n /\ \A r \in 0..(s - 1) : r * r < n

\* the least power of two that is at least n
LeastPowerOfTwo(n) ==
    CHOOSE p \in {1, 2, 4, 8, 16, 32} : p >= n /\ (p = 1 \/ p \div 2 < n)

\* the widths, in units, whose height is within the size limit
CompactWidths(n, s) ==
    {w \in 1..s : DivCeil(n, w) * PaddedUnitSize <= prefs.atlas_size_limit}

\* the compact size in units for n hashes
CompactSize(n, s) ==
    LET areas == {w * DivCeil(n, w) : w \in CompactWidths(n, s)}
    IN  IF areas # {} /\ SetMin(areas) < s * s
        THEN LET w == SetMax({v \in CompactWidths(n, s) :
                                 v * DivCeil(n, v) = SetMin(areas)})
             IN  <<w, DivCeil(n, w)>>
        ELSE <<s, s>>

\* the size w x h is the one claimed for N hashes
SizeAsClaimed(N, w, h) ==
    LET s == CeilSqrt(N)
    IN  /\ IF prefs.atlas_pot
           THEN w = LeastPowerOfTwo(s * PaddedUnitSize) /\ h = w
           ELSE IF prefs.atlas_square
           THEN w = s * PaddedUnitSize /\ h = w
           ELSE /\ w = CompactSize(N, s)[1] * PaddedUnitSize
                /\ h = CompactSize(N, s)[2] * PaddedUnitSize
        /\ (w \div PaddedUnitSize) * (h \div PaddedUnitSize) >= N

\* C18: an atlas of N hashes, s = ceil(sqrt(N)), is with atlas_pot a square of
\* side next_power_of_two(s * padded_unit_size), else with atlas_square a
\* square of side s * padded_unit_size, else the rectangle of w by ceil(N/w)
\* units of least area over the w in [1, s] whose height is within the size
\* limit, the largest w on equal area, (s, s) when none is smaller; and it has
\* room for the N units.
C18_AtlasSize ==
    /\ \A k \in 1..Len(Completed) :
          SizeAsClaimed(Cardinality(DOMAIN Completed[k].rects),
                        Completed[k].texture.width, Completed[k].texture.height)
    /\ pc = "sized" =>
          SizeAsClaimed(Cardinality(DOMAIN ctx.units),
                        result.size.width, result.size.height)

\* eval_atlas_size returned, for seven hashes, a compact size two units wide
\* and four high: the size limit ruled out the widths below two
C18_Witness ==
    /\ pc = "sized"
    /\ ~prefs.atlas_pot /\ ~prefs.atlas_square
    /\ Cardinality(DOMAIN ctx.units) = 7
    /\ result.size.width = 2 * PaddedUnitSize
    /\ result.size.height = 4 * PaddedUnitSize

IdsOf(list) == {list[i].id : i \in 1..Len(list)}

\* the round of this step failed, or admitted at least one texture and took
\* every admitted texture, and no other, out of to_pack
RoundShrinks ==
    \/ result' = Err(ErrCantFit) /\ pc' = "done"
    \/ /\ pc' = "packing"
       /\ Len(admitted') = Len(admitted) + 1
       /\ admitted'[Len(admitted')] # {}
       /\ Len(ctx'.to_pack) < Len(ctx.to_pack)
       /\ Len(ctx'.to_pack) = Cardinality(IdsOf(ctx'.to_pack))
       /\ IdsOf(ctx'.to_pack) = IdsOf(ctx.to_pack) \ admitted'[Len(admitted')]

\* between rounds the packed set and the unit pool are empty, no more rounds
\* have run than there are diced textures, and an empty input has given an
\* empty atlas list without a round
RoundsBounded ==
    /\ pc = "packing" => ctx.packed = {} /\ ctx.units = EmptyMap
    /\ Cardinality(StageReports(2)) <= Len(textures)
    /\ (pc = "done" /\ PackCalled /\ pack_check(prefs) = <<>> /\ textures = <<>>)
          => result = Ok(<<>>) /\ StageReports(2) = {} /\ admitted = <<>>

\* C19: the loop of pack ends: every round returns the "Can't fit single
\* texture" error or admits at least one texture and removes the admitted
\* textures from to_pack, which so shrinks with every round; packed and units
\* are empty at the start of every round; at most as many rounds run as there
\* are input textures; and an empty input returns an empty atlas list without
\* a round.
C19_PackTerminates ==
    /\ [][RoundRan => RoundShrinks]_vars
    /\ []RoundsBounded

\* pack returned after two rounds, each removing one of two textures
C19_Witness ==
    /\ pc = "done"
    /\ result.kind = "Ok"
    /\ Len(textures) = 2
    /\ Len(admitted) = 2

====
